---- MODULE Spec2Model ----
(***************************************************************************)
(* Model of ChatGPT_VTT_TTS.py: a voice chat loop.  The script validates   *)
(* its credentials, builds the two Azure managers, and then loops:         *)
(* transcribe -> (if text) complete -> speak -> continue/quit prompt.      *)
(*                                                                         *)
(* Python strings are sequences of one-character strings, so that          *)
(* str.strip() and str.lower() are computed and not assumed.  The value    *)
(* None is the sequence <<"None">>, which no text equals (every element    *)
(* of a text is a single character).                                       *)
(*                                                                         *)
(* The providers (Azure recognition and synthesis, OpenAI completion, the  *)
(* ffplay process, the file system, standard input) are the environment:   *)
(* their outcomes are chosen nondeterministically by the actions.          *)
(***************************************************************************)
EXTENDS Naturals, Sequences, FiniteSets

VARIABLES
    pc,             \* position of the script
    env,            \* the environment variables that are set
    exit_msg,       \* argument of exit(), "" while none was called
    speech_text,    \* the main loop's speech_text
    chat_response,  \* the main loop's chat_response
    user_exit,      \* the main loop's user_exit
    exc,            \* the exception travelling to the loop's handler
    file,           \* TRUE iff output.wav exists on disk
    turn,           \* number of loop iterations started
    log             \* what the current iteration did: calls, prints, raises

vars == <<pc, env, exit_msg, speech_text, chat_response, user_exit, exc, file, turn, log>>

\* Number of loop iterations explored.
MaxTurns == 2
\* Longest run of whitespace put around a text.
MaxPad == 1

None == <<"None">>

EnvVars == {"OPENAI_API_KEY", "AZURE_TTS_KEY", "AZURE_TTS2_KEY", "AZURE_TTS_REGION"}

----------------------------------------------------------------------------
(* Strings *)

Whitespace == {" ", "\t", "\n"}

RECURSIVE LStrip(_)
LStrip(s) == IF s # <<>> /\ Head(s) \in Whitespace THEN LStrip(Tail(s)) ELSE s

RECURSIVE RStrip(_)
RStrip(s) ==
    IF s # <<>> /\ s[Len(s)] \in Whitespace THEN RStrip(SubSeq(s, 1, Len(s) - 1)) ELSE s

\* str.strip()
Strip(s) == RStrip(LStrip(s))

LowerChar(c) ==
    CASE c = "Q" -> "q"
      [] c = "U" -> "u"
      [] c = "I" -> "i"
      [] c = "T" -> "t"
      [] c = "H" -> "h"
      [] OTHER -> c

RECURSIVE Lower(_)
\* str.lower()
Lower(s) == IF s = <<>> THEN <<>> ELSE <<LowerChar(Head(s))>> \o Lower(Tail(s))

\* Python truthiness of a value that is None or a string
Truthy(v) == v # None /\ v # <<>>

Pad(n) == [i \in 1..n |-> " "]

Padded(core) == {Pad(l) \o core \o Pad(r) : l \in 0..MaxPad, r \in 0..MaxPad}

Event(op, arg) == [op |-> op, arg |-> arg]

HasOp(l, op) == \E i \in 1..Len(l) : l[i].op = op

Printed(l, msg) == \E i \in 1..Len(l) : l[i].op = "print" /\ l[i].arg # <<>> /\ l[i].arg[1] = msg

----------------------------------------------------------------------------
(* What the environment can produce *)

\* texts Azure can recognize
Texts == UNION {Padded(c) : c \in {<<>>, <<"h", "i">>, <<"H", "i", "\t">>}}

\* speech_recognition_result: reason, text, cancellation_details.reason
RecognitionResults ==
    [reason : {"RecognizedSpeech"}, text : Texts, cancel : {"None"}]
    \cup [reason : {"NoMatch"}, text : {<<>>}, cancel : {"None"}]
    \cup [reason : {"Canceled"}, text : {<<>>}, cancel : {"Error", "EndOfStream"}]

\* response.choices[0].message.content
Contents == UNION {Padded(c) : c \in {<<>>, <<"o", "k">>, <<"\n", "o", " ", "k">>}}

\* result of speak_text_async(text).get(): reason, cancellation_details.reason
SynthesisResults ==
    [reason : {"SynthesizingAudioCompleted"}, cancel : {"None"}]
    \cup [reason : {"Canceled"}, cancel : {"Error", "CancelledByUser"}]

\* outcome of subprocess.run(["ffplay", ...], check=True)
PlayOutcomes == {"ok", "CalledProcessError", "FileNotFoundError"}

\* outcome of os.remove
RemoveOutcomes == {"ok", "PermissionError"}

\* lines typed at the continue/quit prompt
Lines ==
    UNION {Padded(c) : c \in {<<>>, <<"q", "u", "i", "t">>, <<"Q", "U", "I", "T">>,
                              <<"Q", "u", "i", "T">>, <<"q", "u", "i", "t", "s">>,
                              <<"q", "u", " ", "i", "t">>, <<"\t", "q", "u", "i", "t">>,
                              <<"q">>}}

----------------------------------------------------------------------------
(* Startup *)

Init ==
    /\ pc = "import"
    /\ env \in SUBSET EnvVars
    /\ exit_msg = ""
    /\ speech_text = None
    /\ chat_response = None
    /\ user_exit = None
    /\ exc = "None"
    /\ file \in BOOLEAN
    /\ turn = 0
    /\ log = <<>>

\* os.getenv
Getenv(name) == IF name \in env THEN <<"k">> ELSE None

\* ImportModule without the check of api_key
ImportModuleUnchecked ==
    /\ pc = "import"
    /\ pc' = "stt_init"
    /\ UNCHANGED <<env, exit_msg, speech_text, chat_response, user_exit, exc, file, turn, log>>

\* api_key = os.getenv(...); if not api_key: exit(...); client = OpenAI(...)
ImportModule ==
    /\ pc = "import"
    /\ IF Truthy(Getenv("OPENAI_API_KEY"))
       THEN pc' = "stt_init" /\ exit_msg' = exit_msg
       ELSE pc' = "exited" /\ exit_msg' = "OpenAI API key is missing."
    /\ UNCHANGED <<env, speech_text, chat_response, user_exit, exc, file, turn, log>>

\* speechsdk.SpeechConfig(subscription, region): the constructor raises when
\* either argument is None; which exception is the SDK's choice.
SpeechConfigOutcomes(subscription, region) ==
    IF subscription # None /\ region # None THEN {"config"} ELSE {"TypeError", "ValueError"}

\* a manager's __init__, run outside the loop's try: TypeError is turned into
\* exit(msg), any other exception is uncaught and ends the process.
ManagerInit(key, msg, next) ==
    \E o \in SpeechConfigOutcomes(Getenv(key), Getenv("AZURE_TTS_REGION")) :
        /\ pc' = CASE o = "config" -> next
                   [] o = "TypeError" -> "exited"
                   [] OTHER -> "crashed"
        /\ exit_msg' = IF o = "TypeError" THEN msg ELSE exit_msg
        /\ exc' = IF o = "ValueError" THEN o ELSE exc

\* speech_manager = SpeechToTextManager()
SttInit ==
    /\ pc = "stt_init"
    /\ ManagerInit("AZURE_TTS_KEY", "Azure keys are missing! AZURE_TTS_KEY", "tts_init")
    /\ UNCHANGED <<env, speech_text, chat_response, user_exit, file, turn, log>>

\* tts_manager = TextToSpeechManager()
TtsInit ==
    /\ pc = "tts_init"
    /\ ManagerInit("AZURE_TTS2_KEY", "Azure keys are missing! AZURE_TTS2_KEY", "loop")
    /\ UNCHANGED <<env, speech_text, chat_response, user_exit, file, turn, log>>

----------------------------------------------------------------------------
(* The three services *)

\* speechtotext_from_mic returning the recognized text stripped
SpeechToTextStripped(result) ==
    LET prompt == <<Event("print", <<"Speak into your microphone...">>)>> IN
    IF result.reason = "RecognizedSpeech"
    THEN [ret |-> Strip(result.text), out |-> prompt]
    ELSE [ret |-> None, out |-> prompt]

\* SpeechToTextManager.speechtotext_from_mic: the value returned and the
\* lines printed, for each result of recognize_once_async().get()
speechtotext_from_mic(result) ==
    LET prompt == <<Event("print", <<"Speak into your microphone...">>)>> IN
    CASE result.reason = "RecognizedSpeech" ->
            [ret |-> result.text, out |-> prompt]
      [] result.reason = "NoMatch" ->
            [ret |-> None,
             out |-> prompt \o <<Event("print", <<"No speech could be recognized">>),
                                 Event("print", <<"Retrying...">>)>>]
      [] result.reason = "Canceled" ->
            [ret |-> None,
             out |-> prompt \o <<Event("print", <<"Speech Recognition canceled">>)>>
                     \o (IF result.cancel = "Error"
                         THEN <<Event("print", <<"Error details">>)>> ELSE <<>>)]
      [] OTHER -> [ret |-> None, out |-> prompt]

\* chat_gpt: the reply for the content the provider returned
chat_gpt(content) == Strip(content)

\* play_audio with the removal at the end of the try body: skipped when the
\* player fails
PlayAudioRemoveInTry(present, play, remove) ==
    LET ran == <<Event("play", <<>>)>>
                \o (IF play = "ok" THEN <<>>
                    ELSE <<Event("print", <<"An error occurred while playing audio", play>>)>>)
    IN  IF present /\ play = "ok"
        THEN [file |-> remove # "ok", out |-> ran \o <<Event("remove", <<remove>>)>>,
              raised |-> "None"]
        ELSE [file |-> present, out |-> ran, raised |-> "None"]

\* play_audio without the except clause: the player's failure propagates
\* after the finally block
PlayAudioPropagates(present, play, remove) ==
    LET ran == <<Event("play", <<>>)>>
                \o (IF play = "ok" THEN <<>>
                    ELSE <<Event("print", <<"An error occurred while playing audio", play>>)>>)
    IN  [file |-> present /\ remove # "ok",
         out |-> ran \o (IF present THEN <<Event("remove", <<remove>>)>> ELSE <<>>),
         raised |-> IF play = "ok" THEN "None" ELSE play]

\* TextToSpeechManager.play_audio(file_path), entered with the file present
\* or not: ffplay runs, a failure is caught and printed, and the finally
\* block removes the file when it is there, swallowing a failed removal.
play_audio(present, play, remove) ==
    LET ran == <<Event("play", <<>>)>>
                \o (IF play = "ok" THEN <<>>
                    ELSE <<Event("print", <<"An error occurred while playing audio", play>>)>>)
    IN  IF present
        THEN [file |-> remove # "ok", out |-> ran \o <<Event("remove", <<remove>>)>>,
              raised |-> "None"]
        ELSE [file |-> FALSE, out |-> ran, raised |-> "None"]

\* text_to_speech playing output.wav whatever the synthesis result
TextToSpeechAlwaysPlays(text, present, created, result, play, remove) ==
    LET p == PlayAudioPropagates(present \/ created, "ok", remove) IN
    [file |-> p.file,
     out |-> <<Event("tts", text)>>
             \o (IF result.reason = "Canceled"
                 THEN <<Event("print", <<"Speech synthesis canceled">>)>> ELSE <<>>)
             \o p.out,
     raised |-> "None"]

\* TextToSpeechManager.text_to_speech(text) for a synthesis result: a
\* completed synthesis has written output.wav and is played; a canceled one
\* is only reported (the file may have been created by the synthesizer).
text_to_speech(text, present, created, result, play, remove) ==
    LET call == <<Event("tts", text)>> IN
    IF result.reason = "SynthesizingAudioCompleted"
    THEN LET p == play_audio(TRUE, play, remove) IN
         [file |-> p.file,
          out |-> call \o <<Event("print", <<"Speech synthesis completed.">>)>> \o p.out,
          raised |-> p.raised]
    ELSE IF result.reason = "Canceled"
    THEN [file |-> present \/ created,
          out |-> call \o <<Event("print", <<"Speech synthesis canceled">>)>>
                  \o (IF result.cancel = "Error"
                      THEN <<Event("print", <<"Error details">>)>> ELSE <<>>),
          raised |-> "None"]
    ELSE [file |-> present \/ created, out |-> call, raised |-> "None"]

----------------------------------------------------------------------------
(* The session loop *)

\* the branch testing speech_text != "" : None counts as text
LoopBranchNoneIsText(text) ==
    IF text # <<>>
    THEN [pc |-> "chat", out |-> <<Event("print", <<"User: ">> \o text)>>]
    ELSE [pc |-> "prompt", out |-> <<Event("print", <<"No valid speech input detected.">>)>>]

\* the else branch ending in continue: the prompt is skipped
LoopBranchContinue(text) ==
    IF Truthy(text)
    THEN [pc |-> "chat", out |-> <<Event("print", <<"User: ">> \o text)>>]
    ELSE [pc |-> "loop", out |-> <<Event("print", <<"No valid speech input detected.">>)>>]

\* if speech_text: print(User) ... else: print(No valid speech input ...)
LoopBranch(text) ==
    IF Truthy(text)
    THEN [pc |-> "chat", out |-> <<Event("print", <<"User: ">> \o text)>>]
    ELSE [pc |-> "prompt", out |-> <<Event("print", <<"No valid speech input detected.">>)>>]

\* speech_text = speech_manager.speechtotext_from_mic() and the branch on it;
\* a provider failure raises out of the call.  The iteration's log starts
\* with the provider's result: its reason, then its text.
Transcribe ==
    /\ pc = "loop"
    /\ turn < MaxTurns
    /\ turn' = turn + 1
    /\ \/ \E result \in RecognitionResults :
            LET r == speechtotext_from_mic(result)
                b == LoopBranch(r.ret)
            IN  /\ speech_text' = r.ret
                /\ log' = <<Event("stt", <<result.reason>>), Event("stt_text", result.text)>>
                          \o r.out \o b.out
                /\ pc' = b.pc
                /\ exc' = exc
       \/ /\ log' = <<Event("stt", <<"raise">>), Event("raise", <<"stt">>)>>
          /\ pc' = "except"
          /\ exc' = "RuntimeError"
          /\ speech_text' = speech_text
    /\ UNCHANGED <<env, exit_msg, chat_response, user_exit, file>>

\* chat_response = chat_gpt(speech_text); print(Bot)
Complete ==
    /\ pc = "chat"
    /\ \/ \E content \in Contents :
            /\ chat_response' = chat_gpt(content)
            /\ log' = log \o <<Event("chat", speech_text),
                               Event("chat_ret", chat_gpt(content)),
                               Event("print", <<"Bot: ">> \o chat_gpt(content))>>
            /\ pc' = "speak"
            /\ exc' = exc
       \/ /\ log' = log \o <<Event("chat", speech_text), Event("raise", <<"chat">>)>>
          /\ pc' = "except"
          /\ exc' = "APIError"
          /\ chat_response' = chat_response
    /\ UNCHANGED <<env, exit_msg, speech_text, user_exit, file, turn>>

\* text_to_speech called with the utterance
SpeakArgumentUtterance == speech_text

\* the argument of tts_manager.text_to_speech(...)
SpeakArgument == chat_response

\* tts_manager.text_to_speech(chat_response); a provider failure raises out of
\* the call, after the synthesizer may have created the file.  An exception
\* leaving text_to_speech itself (raised # "None") goes to the handler;
\* play_audio catches every Exception, so it returns none.
Speak ==
    /\ pc = "speak"
    /\ \E created \in BOOLEAN :
        \/ \E result \in SynthesisResults, play \in PlayOutcomes, remove \in RemoveOutcomes :
            LET t == text_to_speech(SpeakArgument, file, created, result, play, remove) IN
               /\ file' = t.file
               /\ log' = log \o t.out
                         \o (IF t.raised = "None" THEN <<>> ELSE <<Event("raise", <<"play">>)>>)
               /\ pc' = IF t.raised = "None" THEN "prompt" ELSE "except"
               /\ exc' = IF t.raised = "None" THEN exc ELSE t.raised
        \/ /\ file' = (file \/ created)
           /\ log' = log \o <<Event("tts", SpeakArgument), Event("raise", <<"tts">>)>>
           /\ pc' = "except"
           /\ exc' = "RuntimeError"
    /\ UNCHANGED <<env, exit_msg, speech_text, chat_response, user_exit, turn>>

\* the entered line stripped but not lower-cased
UserExitNoLower(line) == Strip(line)

\* input(...).strip().lower()
UserExit(line) == Lower(Strip(line))

\* user_exit = input(...).strip().lower(); if user_exit == 'quit': break;
\* time.sleep(1).  A closed standard input raises EOFError out of input().
Prompt ==
    /\ pc = "prompt"
    /\ \/ \E line \in Lines :
            /\ user_exit' = UserExit(line)
            /\ log' = Append(log, Event("input", line))
            /\ pc' = IF UserExit(line) = <<"q", "u", "i", "t">> THEN "terminated" ELSE "loop"
            /\ exc' = exc
       \/ /\ log' = log \o <<Event("input", None), Event("raise", <<"input">>)>>
          /\ pc' = "except"
          /\ exc' = "EOFError"
          /\ user_exit' = user_exit
    /\ UNCHANGED <<env, exit_msg, speech_text, chat_response, file, turn>>

\* a handler that prints and re-raises
ExceptReraise ==
    /\ pc = "except"
    /\ log' = Append(log, Event("print", <<"An error occurred: ", exc>>))
    /\ pc' = "crashed"
    /\ UNCHANGED <<env, exit_msg, speech_text, chat_response, user_exit, exc, file, turn>>

\* except Exception as e: print(...); time.sleep(1)
Except ==
    /\ pc = "except"
    /\ log' = Append(log, Event("print", <<"An error occurred: ", exc>>))
    /\ exc' = "None"
    /\ pc' = "loop"
    /\ UNCHANGED <<env, exit_msg, speech_text, chat_response, user_exit, file, turn>>

Next ==
    \/ ImportModule
    \/ SttInit
    \/ TtsInit
    \/ Transcribe
    \/ Complete
    \/ Speak
    \/ Prompt
    \/ Except

Spec == Init /\ [][Next]_vars

----------------------------------------------------------------------------
(* Properties *)

Quit == <<"q", "u", "i", "t">>

Last(l) == l[Len(l)]

\* the provider's result of this iteration's transcription
SttReason == log[1].arg[1]
SttText == log[2].arg

Transcribed == turn >= 1 /\ Len(log) >= 2 /\ log[1].op = "stt" /\ log[2].op = "stt_text"

\* a service call of this iteration raised (input() is not a service)
ServiceRaised ==
    \E i \in 1..Len(log) : log[i].op = "raise" /\ log[i].arg[1] \in {"stt", "chat", "tts", "play"}

\* the line is whitespace, then q-u-i-t in any case, then whitespace
IsQuitLine(line) ==
    \E a \in 0..Len(line) :
        /\ a + 4 <= Len(line)
        /\ \A i \in 1..a : line[i] \in Whitespace
        /\ \A i \in (a + 5)..Len(line) : line[i] \in Whitespace
        /\ line[a + 1] \in {"q", "Q"}
        /\ line[a + 2] \in {"u", "U"}
        /\ line[a + 3] \in {"i", "I"}
        /\ line[a + 4] \in {"t", "T"}

\* C1: when the transcription of an iteration ends in no-match or
\* cancellation, speechtotext_from_mic returns None, the try-again notice is
\* printed, and neither chat_gpt nor text_to_speech is called (or about to be
\* called) for the rest of the iteration.
C1_NoUtteranceSkipsServices ==
    (Transcribed /\ SttReason \in {"NoMatch", "Canceled"}) =>
        /\ speech_text = None
        /\ ~HasOp(log, "chat")
        /\ ~HasOp(log, "tts")
        /\ pc \notin {"chat", "speak"}
        /\ Printed(log, "No valid speech input detected.")

C1_Witness ==
    /\ Transcribed /\ SttReason = "NoMatch"
    /\ Printed(log, "Retrying...")
    /\ HasOp(log, "input")
    /\ pc = "loop"

\* C2: whenever chat_gpt has returned a reply r in an iteration, either
\* text_to_speech is the very next call (pc = "speak", nothing else done
\* since the reply was printed) or it has been called, once, with exactly r,
\* right after the reply was printed; text_to_speech is called for no other
\* text.
C2_ReplyIsSpoken ==
    /\ \A i \in 1..Len(log) :
        log[i].op = "chat_ret" =>
            /\ chat_response = log[i].arg
            /\ Len(log) >= i + 1 /\ log[i + 1].op = "print"
            /\ IF Len(log) = i + 1
               THEN pc = "speak"
               ELSE /\ log[i + 2] = Event("tts", log[i].arg)
                    /\ Cardinality({j \in 1..Len(log) : log[j].op = "tts"}) = 1
    /\ \A j \in 1..Len(log) :
        log[j].op = "tts" => j > 2 /\ log[j - 2].op = "chat_ret"
    /\ pc = "speak" => Len(log) >= 2 /\ log[Len(log) - 1].op = "chat_ret"

C2_Witness ==
    /\ pc = "prompt"
    /\ HasOp(log, "chat_ret")
    /\ \E j \in 1..Len(log) : log[j] = Event("tts", <<"o", "k">>)
    /\ speech_text = <<"h", "i">>

\* C3 as claimed: at the start of the next iteration, after an iteration in
\* which text_to_speech was called, output.wav does not exist, whatever the
\* synthesis result and the playback outcome.
C3_Original == (pc = "loop" /\ turn >= 1 /\ HasOp(log, "tts")) => ~file

\* C3 amended: after text_to_speech was called, the deletion of output.wav
\* has been attempted exactly when the synthesis completed (so play_audio
\* ran), whatever the playback outcome; the file is then gone unless that
\* deletion failed.  After a canceled or failed synthesis nothing is deleted.
C3_DeletedAfterPlayback ==
    (pc \in {"prompt", "except", "loop", "terminated"} /\ HasOp(log, "tts")) =>
        IF HasOp(log, "play")
        THEN \E i \in 1..Len(log) :
                /\ log[i].op = "remove"
                /\ file <=> (log[i].arg # <<"ok">>)
        ELSE ~HasOp(log, "remove")

C3_Witness ==
    /\ pc = "loop"
    /\ Printed(log, "An error occurred while playing audio")
    /\ HasOp(log, "remove")
    /\ ~file

\* C4 as claimed: at the start of every iteration but the first, the user
\* was prompted in the iteration before.
C4_Original == (pc = "loop" /\ turn >= 1) => HasOp(log, "input")

\* C4 amended: at the start of every iteration but the first, the user was
\* prompted in the iteration before exactly when no service call of it raised
\* an exception: a no-match, a cancellation, a canceled synthesis and a player
\* failure lead to the prompt, a raised exception leads to the handler and to
\* the next iteration without a prompt.
C4_PromptedUnlessRaised ==
    (pc = "loop" /\ turn >= 1) => (HasOp(log, "input") <=> ~ServiceRaised)

C4_Witness ==
    /\ pc = "loop"
    /\ Printed(log, "Speech synthesis canceled")
    /\ HasOp(log, "input")
    /\ ~ServiceRaised

\* C5: once a line was entered at the prompt, the loop has ended if and only
\* if the line is the word quit in any case between runs of whitespace;
\* otherwise the script is back at the top of the loop.  The loop ends in no
\* other way.
C5_QuitIff ==
    /\ (log # <<>> /\ Last(log).op = "input" /\ Last(log).arg # None) =>
            /\ pc \in {"terminated", "loop"}
            /\ pc = "terminated" <=> IsQuitLine(Last(log).arg)
    /\ pc = "terminated" => log # <<>> /\ Last(log).op = "input"

C5_Witness ==
    /\ pc = "terminated"
    /\ Last(log).arg = <<" ", "Q", "u", "i", "T", " ">>

\* C6: once the loop has started the process never exits or crashes; it ends
\* only at the prompt, with user_exit = "quit"; and an exception raised in an
\* iteration is either on its way to the handler or was printed by it, the
\* script being back at the top of the loop.
C6_OnlyQuitTerminates ==
    /\ turn >= 1 => pc \notin {"exited", "crashed"}
    /\ pc = "terminated" => user_exit = Quit /\ Last(log).op = "input"
    /\ HasOp(log, "raise") =>
        \/ pc = "except" /\ exc # "None" /\ Last(log).op = "raise"
        \/ pc = "loop" /\ Last(log).op = "print" /\ Last(log).arg[1] = "An error occurred: "

C6_Witness ==
    /\ pc = "loop"
    /\ \E i \in 1..Len(log) : log[i] = Event("raise", <<"chat">>)
    /\ Last(log) = Event("print", <<"An error occurred: ", "APIError">>)

\* C7: with any required environment variable missing the script never
\* reaches the loop and calls no service; it gets past the import only with
\* OPENAI_API_KEY, and past SpeechToTextManager() only with AZURE_TTS_KEY and
\* AZURE_TTS_REGION as well.
C7_MissingCredentialStops ==
    /\ env # EnvVars =>
        /\ pc \in {"import", "stt_init", "tts_init", "exited", "crashed"}
        /\ turn = 0
        /\ log = <<>>
    /\ pc = "stt_init" => "OPENAI_API_KEY" \in env
    /\ pc = "tts_init" => {"OPENAI_API_KEY", "AZURE_TTS_KEY", "AZURE_TTS_REGION"} \subseteq env

C7_Witness ==
    /\ pc = "exited"
    /\ env = EnvVars \ {"AZURE_TTS2_KEY"}
    /\ exit_msg = "Azure keys are missing! AZURE_TTS2_KEY"

\* C8: in an iteration whose synthesis was canceled, play_audio is not
\* called, nothing is deleted, no exception is raised by the service calls,
\* and the script is at the continue/quit prompt or past it.
C8_CanceledSynthesisNotPlayed ==
    Printed(log, "Speech synthesis canceled") =>
        /\ ~HasOp(log, "play")
        /\ ~HasOp(log, "remove")
        /\ ~ServiceRaised
        /\ pc = "prompt" \/ HasOp(log, "input")

C8_Witness ==
    /\ pc = "prompt"
    /\ Printed(log, "Speech synthesis canceled")
    /\ Printed(log, "Error details")

\* C9: in an iteration whose playback failed, the failure was printed by
\* play_audio, no exception reached the loop's handler from the service
\* calls, the script is at the continue/quit prompt or past it, and the
\* process has neither exited nor crashed.
C9_PlaybackFailureIsLocal ==
    Printed(log, "An error occurred while playing audio") =>
        /\ ~ServiceRaised
        /\ pc = "prompt" \/ HasOp(log, "input")
        /\ pc \notin {"exited", "crashed"}
        /\ pc = "terminated" => user_exit = Quit

C9_Witness ==
    /\ pc = "prompt"
    /\ \E i \in 1..Len(log) :
        log[i] = Event("print", <<"An error occurred while playing audio", "FileNotFoundError">>)

\* C10 as claimed: after a recognized-speech result with text t, speech_text
\* is t stripped, and so is the prompt given to chat_gpt.
C10_Original ==
    (Transcribed /\ SttReason = "RecognizedSpeech") =>
        /\ speech_text = Strip(SttText)
        /\ \A i \in 1..Len(log) : log[i].op = "chat" => log[i].arg = Strip(SttText)

\* C10 amended: after a recognized-speech result with text t, speech_text is
\* t itself, untrimmed; chat_gpt is called (or about to be) exactly when t is
\* not empty, and its prompt is t itself.
C10_TextUntrimmed ==
    (Transcribed /\ SttReason = "RecognizedSpeech") =>
        /\ speech_text = SttText
        /\ \A i \in 1..Len(log) : log[i].op = "chat" => log[i].arg = SttText
        /\ (SttText # <<>>) <=> (pc = "chat" \/ HasOp(log, "chat"))

C10_Witness ==
    /\ Transcribed /\ SttReason = "RecognizedSpeech"
    /\ SttText = <<" ", "h", "i">>
    /\ \E i \in 1..Len(log) : log[i] = Event("chat", <<" ", "h", "i">>)

====
